---- MODULE Spec2Model ----
(***************************************************************************)
(* Model of src/TLE_class.py: one TLE record (class TLE), its private      *)
(* re-derivation routine __gen_tle, the public mutators and the file       *)
(* wrappers.                                                               *)
(*                                                                         *)
(* Text is a sequence of one-character strings.  A Python int is an        *)
(* integer.  A Python float is a fixed-point record [neg, ip, fp]: sign,   *)
(* integer part and fraction in units of 10^-8 (every float the model      *)
(* feeds in is a decimal of at most 8 places, and none lies on a rounding  *)
(* tie of the formats that print it).                                      *)
(***************************************************************************)
EXTENDS Integers, Sequences, FiniteSets, TLC

VARIABLES self, alive, status, op, args, text, file

vars == <<self, alive, status, op, args, text, file>>

(***************************************************************************)
(* Characters and Python string helpers                                    *)
(***************************************************************************)
Digits == <<"0", "1", "2", "3", "4", "5", "6", "7", "8", "9">>

NL == "\n"

isdigit(c) == \E d \in 1..10 : Digits[d] = c

DigitVal(c) == (CHOOSE d \in 1..10 : Digits[d] = c) - 1

isspace(c) == c = " " \/ c = NL

Min(a, b) == IF a < b THEN a ELSE b

Max(a, b) == IF a > b THEN a ELSE b

RECURSIVE Pow10(_)
Pow10(n) == IF n = 0 THEN 1 ELSE 10 * Pow10(n - 1)

\* the float representation keeps FracDigits decimal places
FracDigits == 8

Rep(c, n) == [i \in 1..Max(n, 0) |-> c]

\* "{:<w}" / str.ljust: pad on the right, never truncate
ljust(s, w, c) == s \o Rep(c, w - Len(s))

\* "{:>w}" / str.rjust: pad on the left, never truncate
rjust(s, w, c) == Rep(c, w - Len(s)) \o s

\* Python slice s[a:b] (0-based, end exclusive, clipped to the string)
Slice(s, a, b) == SubSeq(s, a + 1, Min(b, Len(s)))

RECURSIVE rstrip(_)
rstrip(s) ==
  IF s # <<>> /\ isspace(s[Len(s)]) THEN rstrip(SubSeq(s, 1, Len(s) - 1)) ELSE s

RECURSIVE lstrip(_)
lstrip(s) == IF s # <<>> /\ isspace(s[1]) THEN lstrip(Tail(s)) ELSE s

strip(s) == lstrip(rstrip(s))

\* position of the first occurrence of c in s, 0 when there is none
RECURSIVE find(_, _, _)
find(s, c, i) ==
  IF i > Len(s) THEN 0 ELSE IF s[i] = c THEN i ELSE find(s, c, i + 1)

\* str.split(c): the pieces between the occurrences of c
RECURSIVE split(_, _)
split(s, c) ==
  LET p == find(s, c, 1)
  IN  IF p = 0 THEN <<s>>
      ELSE <<SubSeq(s, 1, p - 1)>> \o split(SubSeq(s, p + 1, Len(s)), c)

\* file.readlines(): the lines of a text, each keeping its newline
RECURSIVE readlines(_)
readlines(s) ==
  LET p == find(s, NL, 1)
  IN  IF s = <<>> THEN <<>>
      ELSE IF p = 0 THEN <<s>>
      ELSE <<SubSeq(s, 1, p)>> \o readlines(SubSeq(s, p + 1, Len(s)))

RECURSIVE join(_, _)
join(ls, c) ==
  IF ls = <<>> THEN <<>>
  ELSE IF Len(ls) = 1 THEN ls[1]
  ELSE ls[1] \o <<c>> \o join(Tail(ls), c)

(***************************************************************************)
(* Numbers: printing                                                       *)
(***************************************************************************)
RECURSIVE NatStr(_)
NatStr(n) ==
  IF n < 10 THEN <<Digits[n + 1]>> ELSE NatStr(n \div 10) \o <<Digits[(n % 10) + 1]>>

\* "{:0wd}": sign first, then zeros, then the digits
FmtZeroInt(i, w) ==
  IF i < 0 THEN <<"-">> \o rjust(NatStr(-i), w - 1, "0")
  ELSE rjust(NatStr(i), w, "0")

\* "{:w}" of an int: right-justified with spaces
FmtInt(i, w) ==
  rjust(IF i < 0 THEN <<"-">> \o NatStr(-i) ELSE NatStr(i), w, " ")

Flt(neg, ip, fp) == [neg |-> neg, ip |-> ip, fp |-> fp]

\* float(i) of a Python int
IntToFlt(i) == IF i < 0 THEN Flt(TRUE, -i, 0) ELSE Flt(FALSE, i, 0)

\* int(x) of a float: truncation toward zero
FltToInt(x) == IF x.neg THEN -x.ip ELSE x.ip

\* x > n for a float x and a natural n
FltGt(x, n) == ~x.neg /\ (x.ip > n \/ (x.ip = n /\ x.fp > 0))

\* "{:.pf}": sign, integer part, point, p rounded decimals
FmtF(x, p) ==
  LET q    == Pow10(FracDigits - p)
      r    == (x.fp \div q) + (IF 2 * (x.fp % q) >= q THEN 1 ELSE 0)
      cy   == r = Pow10(p)
      ipart == IF cy THEN x.ip + 1 ELSE x.ip
      frac  == IF cy THEN 0 ELSE r
  IN  (IF x.neg THEN <<"-">> ELSE <<>>)
        \o NatStr(ipart) \o <<".">> \o rjust(NatStr(frac), p, "0")

(***************************************************************************)
(* Numbers: parsing (int(s) and float(s) of a text)                        *)
(***************************************************************************)
AllDigits(s) == s # <<>> /\ \A i \in 1..Len(s) : isdigit(s[i])

Unsigned(s) == IF s # <<>> /\ (s[1] = "-" \/ s[1] = "+") THEN Tail(s) ELSE s

\* int(s) succeeds
IsInt(s) == AllDigits(Unsigned(strip(s)))

\* float(s) succeeds (decimal notation only)
IsFloat(s) ==
  LET u == Unsigned(strip(s))
      p == split(u, ".")
  IN  \/ AllDigits(u)
      \/ /\ Len(p) = 2
         /\ p[1] \o p[2] # <<>>
         /\ p[1] = <<>> \/ AllDigits(p[1])
         /\ p[2] = <<>> \/ AllDigits(p[2])

RECURSIVE ParseNat(_)
ParseNat(s) ==
  IF s = <<>> THEN 0
  ELSE 10 * ParseNat(SubSeq(s, 1, Len(s) - 1)) + DigitVal(s[Len(s)])

ParseInt(s) ==
  LET t == strip(s)
  IN  IF t[1] = "-" THEN -ParseNat(Tail(t)) ELSE ParseNat(Unsigned(t))

ParseFloat(s) ==
  LET t == strip(s)
      p == split(Unsigned(t), ".")
      f == IF Len(p) = 2 THEN Slice(p[2], 0, FracDigits) ELSE <<>>
  IN  Flt(t[1] = "-", ParseNat(p[1]), ParseNat(ljust(f, FracDigits, "0")))

(***************************************************************************)
(* sgp4.io.fix_checksum, the library call of __gen_tle                     *)
(***************************************************************************)
LineLen == 68

RECURSIVE SumChars(_)
SumChars(s) ==
  IF s = <<>> THEN 0
  ELSE (IF isdigit(s[1]) THEN DigitVal(s[1]) ELSE IF s[1] = "-" THEN 1 ELSE 0)
         + SumChars(Tail(s))

compute_checksum(line) == SumChars(Slice(line, 0, LineLen)) % 10

fix_checksum(line) ==
  ljust(Slice(line, 0, LineLen), LineLen, " ") \o NatStr(compute_checksum(line))

(***************************************************************************)
(* mm_deriv2 and B are "String or 0": a tagged value                       *)
(***************************************************************************)
Num(n) == [isnum |-> TRUE, num |-> n, str |-> <<>>]

Str(s) == [isnum |-> FALSE, num |-> 0, str |-> s]

ZeroSentinel == Str(<<" ", "0", "0", "0", "0", "0", "-", "0">>)

\* the comparison "v == 0" of lines 182 and 186
EqZero(v) == v.isnum /\ v.num = 0

\* str(v)
ToStr(v) == IF v.isnum THEN NatStr(v.num) ELSE v.str

(***************************************************************************)
(* __gen_tle                                                               *)
(***************************************************************************)
\* SetAttrs with the substitution of line 186-187 (B) forgotten
SetAttrsKeepZeroB(a) ==
  [name |-> a.name, sat_num |-> a.sat_num, classification |-> a.classification,
   int_designator |-> a.int_designator, epoch_year |-> a.epoch_year,
   epoch_day |-> a.epoch_day, mm_deriv1 |-> a.mm_deriv1,
   mm_deriv2 |-> IF EqZero(a.mm_deriv2) THEN ZeroSentinel ELSE a.mm_deriv2,
   B |-> a.B,
   set_num |-> a.set_num, inclination |-> a.inclination,
   right_asc_node |-> a.right_asc_node, eccentricity |-> a.eccentricity,
   arg_perigee |-> a.arg_perigee, mean_anomaly |-> a.mean_anomaly,
   mean_motion |-> a.mean_motion, rev_num |-> a.rev_num,
   lines |-> <<>>]

\* lines 174-198: every attribute is assigned and lines is emptied
SetAttrs(a) ==
  [name |-> a.name, sat_num |-> a.sat_num, classification |-> a.classification,
   int_designator |-> a.int_designator, epoch_year |-> a.epoch_year,
   epoch_day |-> a.epoch_day, mm_deriv1 |-> a.mm_deriv1,
   mm_deriv2 |-> IF EqZero(a.mm_deriv2) THEN ZeroSentinel ELSE a.mm_deriv2,
   B |-> IF EqZero(a.B) THEN ZeroSentinel ELSE a.B,
   set_num |-> a.set_num, inclination |-> a.inclination,
   right_asc_node |-> a.right_asc_node, eccentricity |-> a.eccentricity,
   arg_perigee |-> a.arg_perigee, mean_anomaly |-> a.mean_anomaly,
   mean_motion |-> a.mean_motion, rev_num |-> a.rev_num,
   lines |-> <<>>]

\* lines 221-228: a text must carry "-" as its last character but one
BadText(v) ==
  \/ ~v.isnum /\ (Len(v.str) < 2 \/ v.str[Len(v.str) - 1] # "-")
  \/ v.isnum /\ v.num # 0

\* Raises with "and" for the "or" of line 257
RaisesYearAndDay(o) ==
  \/ BadText(o.mm_deriv2)
  \/ BadText(o.B)
  \/ (o.epoch_year > 99 /\ FltGt(o.epoch_day, 366))
  \/ Len(o.classification) # 1

\* lines 200-262: the checks that raise (numeric attributes are numbers in
\* this model, so the isinstance checks on them pass)
Raises(o) ==
  \/ BadText(o.mm_deriv2)
  \/ BadText(o.B)
  \/ o.epoch_year > 99
  \/ FltGt(o.epoch_day, 366)
  \/ Len(o.classification) # 1

\* lines 264-268
mm1_sign(o) == IF FltToInt(o.mm_deriv1) < 0 THEN "-" ELSE " "

\* line 271
Line0(o) == ljust(o.name, 24, " ")

\* lines 273-286
Line1(o) ==
  <<"1", " ">> \o FmtZeroInt(o.sat_num, 5) \o ljust(o.classification, 1, " ")
    \o <<" ">> \o ljust(o.int_designator, 8, " ")
    \o <<" ">> \o FmtZeroInt(o.epoch_year, 2) \o ljust(FmtF(o.epoch_day, 6), 12, "0")
    \o <<" ">> \o <<mm1_sign(o)>> \o <<".">> \o split(FmtF(o.mm_deriv1, 8), ".")[2]
    \o <<" ">> \o rjust(ToStr(o.mm_deriv2), 7, " ")
    \o <<" ">> \o rjust(ToStr(o.B), 7, " ")
    \o <<" ", "0", " ">> \o FmtInt(o.set_num, 4)

\* lines 289-300
Line2(o) ==
  <<"2", " ">> \o FmtZeroInt(o.sat_num, 5)
    \o <<" ">> \o rjust(FmtF(o.inclination, 4), 8, " ")
    \o <<" ">> \o rjust(FmtF(o.right_asc_node, 4), 8, " ")
    \o <<" ">> \o split(FmtF(o.eccentricity, 7), ".")[2]
    \o <<" ">> \o rjust(FmtF(o.arg_perigee, 4), 8, " ")
    \o <<" ">> \o rjust(FmtF(o.mean_anomaly, 4), 8, " ")
    \o <<" ">> \o ljust(FmtF(o.mean_motion, 6), 11, "0")
    \o FmtZeroInt(o.rev_num, 5)

\* Render with the fix_checksum of line 304 (lines[2]) forgotten
RenderOneChecksum(o) == <<Line0(o), fix_checksum(Line1(o)), Line2(o)>>

\* lines 270-304: the three lines, the checksum fixed on lines[1] and lines[2]
Render(o) == <<Line0(o), fix_checksum(Line1(o)), fix_checksum(Line2(o))>>

\* the object __gen_tle leaves behind, and whether it returned or raised
gen_tle(a) ==
  LET o == SetAttrs(a)
  IN  IF Raises(o) THEN [obj |-> o, ok |-> FALSE]
      ELSE [obj |-> [o EXCEPT !.lines = Render(o)], ok |-> TRUE]

(***************************************************************************)
(* Inputs                                                                  *)
(***************************************************************************)
F(ip, fp) == Flt(FALSE, ip, fp)

\* the defaults of __init__
DefaultArgs ==
  [name |-> <<"S", "a", "t", "e", "l", "l", "i", "t", "e">>, sat_num |-> 0, classification |-> <<"U">>,
   int_designator |-> <<"0", "0", "0", "0", "0", "0">>, epoch_year |-> 22, epoch_day |-> IntToFlt(1),
   mm_deriv1 |-> IntToFlt(0), mm_deriv2 |-> Num(0), B |-> Num(0),
   inclination |-> F(30, 0), right_asc_node |-> F(0, 0),
   eccentricity |-> F(0, 67030), arg_perigee |-> F(130, 53600000),
   mean_anomaly |-> IntToFlt(0), mean_motion |-> IntToFlt(1),
   rev_num |-> 0, set_num |-> 1]

\* the arguments of the call in ISS()
ISSArgs ==
  [name |-> <<"I", "S", "S">>, sat_num |-> 25544, classification |-> <<"U">>,
   int_designator |-> <<"9", "8", "0", "6", "7", "A">>, epoch_year |-> 22, epoch_day |-> IntToFlt(1),
   mm_deriv1 |-> Flt(TRUE, 0, 2182), mm_deriv2 |-> Num(0),
   B |-> Str(<<"-", "1", "1", "6", "0", "6", "-", "4">>),
   inclination |-> F(51, 64160000), right_asc_node |-> F(247, 46270000),
   eccentricity |-> F(0, 67030), arg_perigee |-> F(130, 53600000),
   mean_anomaly |-> F(325, 2880000), mean_motion |-> F(15, 72125391),
   rev_num |-> 56353, set_num |-> 292]

Letters ==
  <<"A", "B", "C", "D", "E", "F", "G", "H", "I", "J", "K", "L", "M", "N", "O", "P", "Q", "R", "S", "T", "U", "V", "W", "X", "Y", "Z">>

NameOfLen(n) == SubSeq(Letters, 1, n)

\* names shorter than, as long as, and longer than the 24-character column
Names == {DefaultArgs.name, NameOfLen(24), NameOfLen(25)}

\* catalogue entries: the default one, the ISS one, one with a 6-digit number
Catalogs ==
  {DefaultArgs, ISSArgs, [DefaultArgs EXCEPT !.sat_num = 123456]}

Classifications == {<<"U">>, <<"U", "S">>, <<>>}

EpochYears == {22, 100}

EpochDays == {IntToFlt(1), IntToFlt(400)}

MmDeriv1s == {IntToFlt(0), F(0, 1234), Flt(TRUE, 0, 2182), Flt(TRUE, 1, 50000000)}

MmDeriv2s ==
  {Num(0), Str(<<"+", "1", "2", "3", "4", "5", "-", "6">>),
   Str(<<"1", "2", "3", "4", "5", "-", "6">>), Str(<<" ", "1", "2", "3", "4", "5", "+", "6">>)}

\* the drag term is the catalogue entry's own or a number that is not 0
Bs(c) == {c.B, Num(5)}

ConstructInputs ==
  UNION {
    {[c EXCEPT !.name = n, !.classification = cl, !.epoch_year = ey,
               !.epoch_day = ed, !.mm_deriv1 = m1, !.mm_deriv2 = m2, !.B = b] :
       n \in Names, cl \in Classifications, ey \in EpochYears,
       ed \in EpochDays, m1 \in MmDeriv1s, m2 \in MmDeriv2s, b \in Bs(c)} :
    c \in Catalogs}

\* a datetime
DT(y, mo, d, h, mi, s) ==
  [year |-> y, month |-> mo, day |-> d, hour |-> h, minute |-> mi, second |-> s]

DateTimes ==
  {DT(2024, 2, 29, 23, 59, 59), DT(2024, 12, 31, 0, 0, 0), DT(1999, 6, 1, 6, 0, 0),
   DT(2024, 12, 31, 12, 0, 0), DT(2100, 1, 1, 0, 0, 0)}

\* the values datetime.datetime.today() takes in the model
Todays == {DT(2026, 11, 5, 18, 0, 0)}

\* the published element set of the ISS, as another producer prints it
CanonicalISS ==
  <<<<"I", "S", "S", " ", " ", " ", " ", " ", " ", " ", " ", " ", " ", " ", " ", " ", " ", " ", " ", " ", " ", " ", " ", " ">>,
    <<"1", " ", "2", "5", "5", "4", "4", "U", " ", "9", "8", "0", "6", "7", "A", " ", " ", " ", "2", "2", "0", "0", "1", ".", "0", "0", "0", "0", "0", "0", "0", "0", " ", "-", ".", "0", "0", "0", "0", "2", "1", "8", "2", " ", " ", "0", "0", "0", "0", "0", "-", "0", " ", "-", "1", "1", "6", "0", "6", "-", "4", " ", "0", " ", " ", "2", "9", "2", "1">>,
    <<"2", " ", "2", "5", "5", "4", "4", " ", " ", "5", "1", ".", "6", "4", "1", "6", " ", "2", "4", "7", ".", "4", "6", "2", "7", " ", "0", "0", "0", "6", "7", "0", "3", " ", "1", "3", "0", ".", "5", "3", "6", "0", " ", "3", "2", "5", ".", "0", "2", "8", "8", " ", "1", "5", ".", "7", "2", "1", "2", "5", "3", "9", "1", "5", "6", "3", "5", "3", "7">>>>

(***************************************************************************)
(* astropy Time(date_time).yday and the epoch of set_date_time             *)
(***************************************************************************)
IsLeap(y) == (y % 4 = 0 /\ y % 100 # 0) \/ y % 400 = 0

DaysBefore == <<0, 31, 59, 90, 120, 151, 181, 212, 243, 273, 304, 334>>

\* "year:day-of-year:hour:minute:second", split at ":" and read as numbers
yday(d) ==
  [year |-> d.year,
   day |-> DaysBefore[d.month] + d.day
             + (IF d.month > 2 /\ IsLeap(d.year) THEN 1 ELSE 0),
   hour |-> d.hour, minute |-> d.minute, second |-> d.second]

\* line 313
EpochYearOf(dt) == dt.year - 2000

\* line 314: day + hour/24 + minute/1440 + second/86400, to 8 places
EpochDayOf(dt) ==
  LET secs == dt.hour * 3600 + dt.minute * 60 + dt.second
  IN  F(dt.day, (secs \div 27) * 31250 + ((secs % 27) * 31250) \div 27)

\* the arguments set_date_time hands to __gen_tle: the stored attributes
AttrsOf(o) ==
  [name |-> o.name, sat_num |-> o.sat_num, classification |-> o.classification,
   int_designator |-> o.int_designator, epoch_year |-> o.epoch_year,
   epoch_day |-> o.epoch_day, mm_deriv1 |-> o.mm_deriv1,
   mm_deriv2 |-> o.mm_deriv2, B |-> o.B, set_num |-> o.set_num,
   inclination |-> o.inclination, right_asc_node |-> o.right_asc_node,
   eccentricity |-> o.eccentricity, arg_perigee |-> o.arg_perigee,
   mean_anomaly |-> o.mean_anomaly, mean_motion |-> o.mean_motion,
   rev_num |-> o.rev_num]

(***************************************************************************)
(* Decoding: the slices of create_tle_from_str / create_tle_from_txt       *)
(***************************************************************************)
\* the text of mm_deriv1: lines[1][33] + "0" + lines[1][34:43]
Mm1Text(l1) == <<l1[34]>> \o <<"0">> \o Slice(l1, 34, 43)

\* every index, int() and float() of the argument list succeeds
Parses(ls) ==
  /\ Len(ls) >= 3
  /\ Len(ls[2]) > 33
  /\ IsInt(Slice(ls[2], 2, 7))
  /\ IsInt(Slice(ls[2], 18, 20))
  /\ IsFloat(Slice(ls[2], 20, 32))
  /\ IsFloat(Mm1Text(ls[2]))
  /\ IsInt(Slice(ls[2], 64, 68))
  /\ IsFloat(Slice(ls[3], 8, 16))
  /\ IsFloat(Slice(ls[3], 17, 25))
  /\ IsFloat(<<"0", ".">> \o Slice(ls[3], 26, 33))
  /\ IsFloat(Slice(ls[3], 34, 42))
  /\ IsFloat(Slice(ls[3], 43, 51))
  /\ IsFloat(Slice(ls[3], 52, 63))
  /\ IsInt(Slice(ls[3], 63, 68))

\* Parsed with the epoch day sliced one column late ([21:32] for [20:32])
ParsedDayLate(ls) ==
  [name |-> rstrip(ls[1]),
   sat_num |-> ParseInt(Slice(ls[2], 2, 7)),
   classification |-> <<ls[2][8]>>,
   int_designator |-> Slice(ls[2], 9, 17),
   epoch_year |-> ParseInt(Slice(ls[2], 18, 20)),
   epoch_day |-> ParseFloat(<<"0">> \o Slice(ls[2], 21, 32)),
   mm_deriv1 |-> ParseFloat(Mm1Text(ls[2])),
   mm_deriv2 |-> Str(Slice(ls[2], 44, 52)),
   B |-> Str(Slice(ls[2], 53, 61)),
   set_num |-> ParseInt(Slice(ls[2], 64, 68)),
   inclination |-> ParseFloat(Slice(ls[3], 8, 16)),
   right_asc_node |-> ParseFloat(Slice(ls[3], 17, 25)),
   eccentricity |-> ParseFloat(<<"0", ".">> \o Slice(ls[3], 26, 33)),
   arg_perigee |-> ParseFloat(Slice(ls[3], 34, 42)),
   mean_anomaly |-> ParseFloat(Slice(ls[3], 43, 51)),
   mean_motion |-> ParseFloat(Slice(ls[3], 52, 63)),
   rev_num |-> ParseInt(Slice(ls[3], 63, 68))]

Parsed(ls) ==
  [name |-> rstrip(ls[1]),
   sat_num |-> ParseInt(Slice(ls[2], 2, 7)),
   classification |-> <<ls[2][8]>>,
   int_designator |-> Slice(ls[2], 9, 17),
   epoch_year |-> ParseInt(Slice(ls[2], 18, 20)),
   epoch_day |-> ParseFloat(Slice(ls[2], 20, 32)),
   mm_deriv1 |-> ParseFloat(Mm1Text(ls[2])),
   mm_deriv2 |-> Str(Slice(ls[2], 44, 52)),
   B |-> Str(Slice(ls[2], 53, 61)),
   set_num |-> ParseInt(Slice(ls[2], 64, 68)),
   inclination |-> ParseFloat(Slice(ls[3], 8, 16)),
   right_asc_node |-> ParseFloat(Slice(ls[3], 17, 25)),
   eccentricity |-> ParseFloat(<<"0", ".">> \o Slice(ls[3], 26, 33)),
   arg_perigee |-> ParseFloat(Slice(ls[3], 34, 42)),
   mean_anomaly |-> ParseFloat(Slice(ls[3], 43, 51)),
   mean_motion |-> ParseFloat(Slice(ls[3], 52, 63)),
   rev_num |-> ParseInt(Slice(ls[3], 63, 68))]

\* to_str()
to_str(o) == join(o.lines, NL)

(***************************************************************************)
(* The record: construction and the public methods                         *)
(***************************************************************************)
Outcome(ok) == IF ok THEN "ok" ELSE "error"

\* TLE(...): __init__ hands its arguments to __gen_tle; when that raises,
\* no object is returned to the caller (alive = FALSE)
Init ==
  \E a \in ConstructInputs :
    LET r == gen_tle(a)
    IN  /\ self = r.obj
        /\ alive = r.ok
        /\ status = Outcome(r.ok)
        /\ op = "__init__"
        /\ args = a
        /\ text = <<>>
        /\ file = <<>>

\* the re-derivation every mutator ends in
Rederive(a) ==
  LET r == gen_tle(a)
  IN  /\ self' = r.obj
      /\ status' = Outcome(r.ok)
      /\ args' = a

ISS ==
  /\ alive
  /\ Rederive(ISSArgs)
  /\ op' = "ISS"
  /\ text' = <<>>
  /\ UNCHANGED <<alive, file>>

SetEpoch(date_time) ==
  LET dt == yday(date_time)
  IN  Rederive([AttrsOf(self) EXCEPT !.epoch_year = EpochYearOf(dt),
                                     !.epoch_day = EpochDayOf(dt)])

set_date_time(date_time) ==
  /\ alive
  /\ SetEpoch(date_time)
  /\ op' = "set_date_time"
  /\ text' = <<>>
  /\ UNCHANGED <<alive, file>>

set_date_to_today ==
  /\ alive
  /\ \E today \in Todays : SetEpoch(today)
  /\ op' = "set_date_to_today"
  /\ text' = <<>>
  /\ UNCHANGED <<alive, file>>

\* the lines handed over are parsed first; an index or conversion error
\* there is raised before __gen_tle is entered
Decode(ls) ==
  IF Parses(ls) THEN Rederive(Parsed(ls))
  ELSE status' = "error" /\ UNCHANGED <<self, args>>

create_tle_from_str(input_str) ==
  /\ alive
  /\ Decode(split(input_str, NL))
  /\ op' = "create_tle_from_str"
  /\ text' = input_str
  /\ UNCHANGED <<alive, file>>

(***************************************************************************)
(* Texts handed to create_tle_from_str                                     *)
(***************************************************************************)
SetLast(l, c) == [l EXCEPT ![Len(l)] = c]

\* the three lines with both checksum digits moved on by k
WrongChecksums(ls, k) ==
  LET bump(l) == SetLast(l, Digits[((DigitVal(l[Len(l)]) + k) % 10) + 1])
  IN  <<ls[1], bump(ls[2]), bump(ls[3])>>

\* the published ISS set with epoch day 400
CanonicalDay400 ==
  <<CanonicalISS[1],
    [CanonicalISS[2] EXCEPT ![21] = "4", ![22] = "0", ![23] = "0"],
    CanonicalISS[3]>>

\* the published ISS set with one column of line 1 lost
CanonicalShifted ==
  <<CanonicalISS[1],
    SubSeq(CanonicalISS[2], 1, 2) \o SubSeq(CanonicalISS[2], 4, Len(CanonicalISS[2])),
    CanonicalISS[3]>>

ForeignTexts ==
  {join(CanonicalISS, NL), join(WrongChecksums(CanonicalISS, 3), NL),
   join(CanonicalDay400, NL), join(CanonicalShifted, NL),
   join(SubSeq(CanonicalISS, 1, 2), NL)}

\* texts derived from the record's own rendering
OwnTexts(o) ==
  IF o.lines = <<>> THEN {}
  ELSE {to_str(o), join(WrongChecksums(o.lines, 1), NL)}

(***************************************************************************)
(* Specification of the record                                             *)
(***************************************************************************)
Next ==
  \/ ISS
  \/ \E date_time \in DateTimes : set_date_time(date_time)
  \/ set_date_to_today
  \/ \E input_str \in OwnTexts(self) \cup ForeignTexts :
       create_tle_from_str(input_str)

Spec == Init /\ [][Next]_vars

(***************************************************************************)
(* The file wrappers                                                       *)
(***************************************************************************)
RECURSIVE Flatten(_)
Flatten(ls) == IF ls = <<>> THEN <<>> ELSE ls[1] \o Flatten(Tail(ls))

\* to_txt: the file is replaced by the lines joined with newlines
to_txt ==
  /\ alive
  /\ file' = join(self.lines, NL)
  /\ status' = "ok"
  /\ op' = "to_txt"
  /\ text' = <<>>
  /\ UNCHANGED <<self, alive, args>>

\* AppendLines with the newline in front of lines[0] forgotten
AppendLinesNoFirstNL(existing_lines, o) ==
  existing_lines \o <<o.lines[1], <<NL>> \o o.lines[2], <<NL>> \o o.lines[3]>>

\* lines 401-406: the existing lines, then each line of the record with a
\* newline in front of it
AppendLines(existing_lines, o) ==
  existing_lines
    \o <<<<NL>> \o o.lines[1], <<NL>> \o o.lines[2], <<NL>> \o o.lines[3]>>

\* the files the model lets grow: at most MaxFileLines lines before an append
MaxFileLines == 3

\* append_to_txt: a record without lines raises at self.lines[0], after the
\* read and before the file is opened for writing
append_to_txt ==
  /\ alive
  /\ Len(readlines(file)) <= MaxFileLines
  /\ IF Len(self.lines) >= 3
       THEN file' = Flatten(AppendLines(readlines(file), self)) /\ status' = "ok"
       ELSE file' = file /\ status' = "error"
  /\ op' = "append_to_txt"
  /\ text' = <<>>
  /\ UNCHANGED <<self, alive, args>>

\* create_tle_from_txt: the slices of create_tle_from_str on readlines()
create_tle_from_txt ==
  /\ alive
  /\ Decode(readlines(file))
  /\ op' = "create_tle_from_txt"
  /\ text' = file
  /\ UNCHANGED <<alive, file>>

\* records and files of the file specification
FileConstructInputs ==
  {DefaultArgs, [ISSArgs EXCEPT !.name = NameOfLen(25)],
   [DefaultArgs EXCEPT !.mm_deriv1 = Flt(TRUE, 0, 2182), !.mm_deriv2 = Str(<<"+", "1", "2", "3", "4", "5", "-", "6">>)]}

InitialFiles ==
  {<<>>, <<"N", "O", "T", "E">>, <<"N", "O", "T", "E", "\n">>,
   <<"A", "\n", "B">>, <<"A", "\n", "\n", "B", "\n">>}

FileDateTimes == {DT(2024, 2, 29, 23, 59, 59), DT(2100, 1, 1, 0, 0, 0)}

FileInit ==
  \E a \in FileConstructInputs, f \in InitialFiles :
    LET r == gen_tle(a)
    IN  /\ self = r.obj
        /\ alive = r.ok
        /\ status = Outcome(r.ok)
        /\ op = "__init__"
        /\ args = a
        /\ text = <<>>
        /\ file = f

FileNext ==
  \/ to_txt
  \/ append_to_txt
  \/ create_tle_from_txt
  \/ ISS
  \/ \E date_time \in FileDateTimes : set_date_time(date_time)

FileSpec == FileInit /\ [][FileNext]_vars

(***************************************************************************)
(* Properties                                                              *)
(***************************************************************************)
SetEpochOps == {"set_date_time", "set_date_to_today"}

\* a record that holds its three rendered lines
Rendered(o) == Len(o.lines) = 3

\* C1: after the ISS preset, to_str() is exactly the three published lines
\* of the ISS element set (name line, line 1 and line 2, checksums included).
C1_ISSCanonical ==
  op = "ISS" => status = "ok" /\ to_str(self) = join(CanonicalISS, NL)

\* no newline inside a text
OneLine(t) == \A i \in 1..Len(t) : t[i] # NL

\* every field of the record prints in exactly the width of its column
FitsColumns(o) ==
  /\ OneLine(o.name) /\ OneLine(o.classification) /\ OneLine(o.int_designator)
  /\ OneLine(ToStr(o.mm_deriv2)) /\ OneLine(ToStr(o.B))
  /\ Len(FmtZeroInt(o.sat_num, 5)) = 5
  /\ Len(o.int_designator) <= 8
  /\ Len(FmtZeroInt(o.epoch_year, 2)) = 2
  /\ Len(FmtF(o.epoch_day, 6)) <= 12
  /\ Len(ToStr(o.mm_deriv2)) = 8
  /\ Len(ToStr(o.B)) = 8
  /\ Len(FmtInt(o.set_num, 4)) = 4
  /\ Len(FmtF(o.inclination, 4)) <= 8
  /\ Len(FmtF(o.right_asc_node, 4)) <= 8
  /\ Len(FmtF(o.arg_perigee, 4)) <= 8
  /\ Len(FmtF(o.mean_anomaly, 4)) <= 8
  /\ Len(FmtF(o.mean_motion, 6)) <= 11
  /\ Len(FmtZeroInt(o.rev_num, 5)) = 5

\* the step decodes the record's own rendering
DecodesOwnText ==
  /\ alive
  /\ Rendered(self)
  /\ op' = "create_tle_from_str"
  /\ text' = to_str(self)

C3_LinesMatchFields ==
  alive => Rendered(self) /\ self.lines = Render(self)

\* C4: a SetEpoch or Decode of a rendered record that ends in an error
\* leaves every stored field and all three lines as they were.
C4_FailureKeepsRecord ==
  [][(/\ alive
      /\ Rendered(self)
      /\ op' \in SetEpochOps \cup {"create_tle_from_str"}
      /\ status' = "error") => self' = self]_vars

\* a float below zero
IsNegative(x) == x.neg /\ (x.ip > 0 \/ x.fp > 0)

\* C5: in a rendered record, the derivative field of line 1 (columns 33-42)
\* begins with "-" followed by the 8 fractional digits when mm_deriv1 is
\* negative and of magnitude below 1, and begins with a space when it is
\* zero or positive.
C5_SignOfDerivative ==
  (alive /\ Rendered(self)) =>
    LET f == Slice(self.lines[2], 33, 43)
    IN  /\ (IsNegative(self.mm_deriv1) /\ self.mm_deriv1.ip = 0) =>
             /\ f[1] = "-"
             /\ Slice(f, 2, 10) = split(FmtF(self.mm_deriv1, 8), ".")[2]
        /\ ~IsNegative(self.mm_deriv1) => f[1] = " "

\* the checksum rule: each digit counts its value, each "-" counts 1,
\* every other character counts 0; the sum is taken modulo 10
RECURSIVE DigitSum(_, _)
DigitSum(s, i) ==
  IF i = 0 THEN 0
  ELSE DigitSum(s, i - 1)
         + (IF isdigit(s[i]) THEN DigitVal(s[i]) ELSE IF s[i] = "-" THEN 1 ELSE 0)

EndsInChecksum(l) ==
  l[Len(l)] = Digits[(DigitSum(l, Len(l) - 1) % 10) + 1]

C7_NameLine ==
  (alive /\ Rendered(self)) =>
    /\ Len(self.lines[1]) = 24
    /\ self.lines[1] = ljust(Slice(self.name, 0, 24), 24, " ")

\* the arguments of a re-derivation that name an epoch day above 366, an
\* epoch year above 99 or a classification that is not one character
OutOfRange(a) ==
  \/ FltGt(a.epoch_day, 366)
  \/ a.epoch_year > 99
  \/ Len(a.classification) # 1

\* C8: a construction or re-derivation with an out-of-range epoch day, epoch
\* year or classification ends in an error and leaves no rendered lines.
C8_RangeRejection ==
  OutOfRange(args) => status = "error" /\ self.lines = <<>>

\* a SetEpoch to noon of day 366 was rejected
C8_Witness ==
  /\ op = "set_date_time"
  /\ FltGt(args.epoch_day, 366)
  /\ args.epoch_year <= 99
  /\ Len(args.classification) = 1
  /\ status = "error"

\* C9: a numeric zero given to the constructor for mm_deriv2 (for B) is
\* stored as the text " 00000-0", which passes the text check, and a later
\* SetEpoch keeps that text.
C9_ZeroSentinel ==
  /\ [](op = "__init__" =>
          /\ EqZero(args.mm_deriv2) =>
               /\ self.mm_deriv2 = Str(<<" ", "0", "0", "0", "0", "0", "-", "0">>)
               /\ ~BadText(self.mm_deriv2)
          /\ EqZero(args.B) =>
               /\ self.B = Str(<<" ", "0", "0", "0", "0", "0", "-", "0">>)
               /\ ~BadText(self.B))
  /\ [][op' \in SetEpochOps =>
          /\ self.mm_deriv2 = ZeroSentinel => self'.mm_deriv2 = ZeroSentinel
          /\ self.B = ZeroSentinel => self'.B = ZeroSentinel]_vars

\* a SetEpoch has succeeded on a record that stores both sentinels
C9_Witness ==
  /\ op \in SetEpochOps
  /\ status = "ok"
  /\ self.mm_deriv2 = ZeroSentinel
  /\ self.B = ZeroSentinel

\* a line without its newline
Content(l) == IF l # <<>> /\ l[Len(l)] = NL THEN SubSeq(l, 1, Len(l) - 1) ELSE l

\* the last n characters of a text
Suffix(t, n) == SubSeq(t, Len(t) - n + 1, Len(t))

\* C10: an append of a rendered record to a file of N lines keeps the
\* content of the first N lines and ends the file with the record's three
\* lines in order, each with a newline character in front of it.
C10_AppendSemantics ==
  [][(alive /\ Rendered(self) /\ op' = "append_to_txt") =>
       LET old  == readlines(file)
           new  == readlines(file')
           N    == Len(old)
           tail == <<NL>> \o self.lines[1] \o <<NL>> \o self.lines[2]
                     \o <<NL>> \o self.lines[3]
       IN  /\ status' = "ok"
           /\ Len(new) >= N + 3
           /\ \A i \in 1..N : Content(new[i]) = Content(old[i])
           /\ \A k \in 1..3 : Content(new[Len(new) - 3 + k]) = self.lines[k]
           /\ Len(file') >= Len(tail)
           /\ Suffix(file', Len(tail)) = tail]_vars

\* a record was appended to the two-line file "A\nB", which had no final
\* newline
C10_Witness ==
  /\ op = "append_to_txt"
  /\ status = "ok"
  /\ LET ls == readlines(file)
     IN  /\ Len(ls) = 5
         /\ ls[1] = <<"A", NL>>
         /\ ls[2] = <<"B", NL>>
         /\ Content(ls[3]) = self.lines[1]
         /\ ls[5] = self.lines[3]

\* the step is a SetEpoch of a rendered record to the timestamp d
SetsEpochTo(d) ==
  /\ alive
  /\ Rendered(self)
  /\ op' \in SetEpochOps
  /\ args' = [AttrsOf(self) EXCEPT !.epoch_year = d.year - 2000,
                                   !.epoch_day = EpochDayOf(yday(d))]

\* C11: a SetEpoch of a valid record to any timestamp of the years 2000 to
\* 2099, day 366 of a leap year at any time of day included, ends without
\* an error, stores epoch_year = year - 2000 and epoch_day = day + hour/24
\* + minute/1440 + second/86400 (between 1 and 367), and leaves the three
\* lines that encode them.
C11_SetEpochInCentury ==
  [][\A d \in DateTimes \cup Todays :
       (d.year \in 2000..2099 /\ SetsEpochTo(d)) =>
         /\ status' = "ok"
         /\ self'.epoch_year = d.year - 2000
         /\ self'.epoch_year \in 0..99
         /\ self'.epoch_day = EpochDayOf(yday(d))
         /\ self'.epoch_day.ip \in 1..366
         /\ self'.lines = Render(self')]_vars

====
